---------------------------- MODULE Spec2Model ----------------------------
(***************************************************************************)
(* Model of the RobotUltrasound Slicer module (RobotUltrasoundWidget):     *)
(* the arm connection, the self-rescheduling pose publisher                *)
(* (updateProbeHolderToRobotBaseTransform), the sweep commands and the     *)
(* volume-reconstruction reset.                                            *)
(*                                                                         *)
(* Everything runs on the Qt main thread.  A handler that calls            *)
(* slicer.app.processEvents() (or opens a modal message) yields to the     *)
(* event loop, which may dispatch timers and button clicks re-entrantly:   *)
(* the dispatched handler runs on top of the suspended one.  `stack` is    *)
(* that Python call stack of suspended handlers, innermost last.           *)
(*                                                                         *)
(* Joint angles are integers in units of 1/10 degree, so that              *)
(* angleRange / 2 is exact for every integer slider value.                 *)
(***************************************************************************)
EXTENDS Integers, Sequences, FiniteSets, TLC

(***************************************************************************)
(* Bounds of the model.                                                    *)
(***************************************************************************)
\* longest chain of handlers suspended in processEvents
MaxDepth == 2
\* publisher timer chains (pending timers plus iterations in flight)
MaxChains == 2
\* presses of the reset-volume-reconstruction button
MaxResets == 2
\* transform nodes the publisher of a script may add to the scene
MaxNodes == 3

(***************************************************************************)
(* Program constants.                                                      *)
(***************************************************************************)
\* range(30) of the image wait loop
PollLimit == 30
\* qt.QTimer.singleShot(1000, ...) of the not-connected branch
BackoffDelay == 1000
\* qt.QTimer.singleShot(0, ...) at the end of an iteration
ImmediateDelay == 0
\* speed of the blocking move of the reset
ResetMoveSpeed == 15
\* speed of onHomeButton
HomeSpeed == 15
\* speed of send_coords in onFlyButton / onLandButton
NudgeSpeed == 10
\* z offset of onFlyButton / onLandButton
NudgeStep == 5

Deg(x) == 10 * x

defaultCenterAngles == <<Deg(0), Deg(-28), Deg(-135), Deg(76), Deg(5), Deg(45)>>

HomeAngles == <<0, 0, 0, 0, 0, 0>>

\* joint readings the arm may return; the first is a taught pose of the
\* test script, the last stands for a failed read (-1 / None)
TaughtAngles == <<Deg(8), Deg(-28), Deg(-135), Deg(76), Deg(4), Deg(61)>>
InvalidReading == <<>>
Readings == {HomeAngles, TaughtAngles, InvalidReading}

\* forward kinematics of the vendor library (opaque): a table over the
\* readings, with the Cartesian poses of the test script
angles_to_coords(a) ==
    IF a = InvalidReading THEN <<>>
    ELSE IF a = TaughtAngles THEN <<150, 0, 80, 175, 0, -45>>
    ELSE <<200, -60, 80, 175, 0, 45>>

Delays == {ImmediateDelay, BackoffDelay}

VARIABLES
    mc,             \* slicer.mc: "absent" (no attribute), "none", "open"
    link,           \* what mc.is_controller_connected() answers
    updateProbeHolderToRobotBaseTransformActive,
    connectionStatusLabel,  \* [text, toolTip]
    timers,         \* pending QTimer.singleShot callbacks: delay -> count
    stack,          \* suspended handlers, innermost last
    widget,         \* [state, defaultCenterAngles] of the module widget
    nodes,          \* the MRML scene: node name -> number of nodes
    connector,      \* [running, starts] of the IGTL connector node
    transform,      \* [pose, emitted] of ProbeHolderToRobotBase
    reconstruction, \* the VolumeReconstruction session and its display
    parameterNode,  \* [centerAngles, angleRange, speed, liveUpdates]
    lastCmd,        \* last command sent to the arm
    fault,          \* exception that left the last step's handler, or "none"
    report,         \* last message of slicer.util.errorDisplay
    script          \* the publisher of the drivemycobot script, once run

vars == <<mc, link, updateProbeHolderToRobotBaseTransformActive,
          connectionStatusLabel, timers, stack, widget, nodes, connector,
          transform, reconstruction, parameterNode, lastCmd, fault,
          report, script>>

Active == updateProbeHolderToRobotBaseTransformActive

NoCmd == [op |-> "none", target |-> <<>>, speed |-> 0]

Frame(h, pc, polls, via) == [h |-> h, pc |-> pc, polls |-> polls, via |-> via]

Top == stack[Len(stack)]
Pop == SubSeq(stack, 1, Len(stack) - 1)
Push(f) == Append(stack, f)
Retop(f) == [stack EXCEPT ![Len(stack)] = f]

\* the event loop is running: idle, or inside processEvents of the top frame
InProcessEvents == stack /= <<>> /\ Top.pc = "events"
\* a modal message (errorDisplay, delayDisplay) runs a local event loop:
\* timers only
InModalLoop ==
    /\ stack /= <<>>
    /\ Top.pc \in {"nofound", "norobot", "delay", "holding", "focused"}
Idle == stack = <<>>
CanDispatchTimer == Idle \/ InProcessEvents \/ InModalLoop
CanDispatchClick == widget.state = "up" /\ (Idle \/ InProcessEvents)
CanNest == Len(stack) < MaxDepth

Count(h) == Cardinality({i \in 1..Len(stack) : stack[i].h = h})
PendingTimers == timers[ImmediateDelay] + timers[BackoffDelay]
\* iterations scheduled or in flight
Chains == PendingTimers + Count("update")

NodeNames == {"ProbeHolderToRobotBase", "RobotUltrasoundConnector",
              "Image_Reference", "ImageToProbeHolder", "VolumeReconstruction",
              "VolumeReconstructionROI", "Volume_Reference",
              "ProbeToRobotBase", "LinearTransform"}

\* GetFirstNodeByName(n) returns a node
Has(n) == nodes[n] > 0

\* node = GetFirstNodeByName(lookup); if not node: AddNewNodeByClass(cls,
\* create), on the scene s
GetOrCreate(s, lookup, create) ==
    IF s[lookup] > 0 THEN s ELSE [s EXCEPT ![create] = @ + 1]

\* no node has been written to
NoTarget == [name |-> "none", ordinal |-> 0]

\* no drivemycobot script has been run
NoScript == [variant |-> "none", active |-> FALSE, pending |-> 0,
             written |-> NoTarget, pose |-> <<>>]

\* the state after construction and setup, for the scene s and the
\* connector c the module finds
InitWith(s, c) ==
    /\ mc = "absent"
    /\ link \in BOOLEAN
    /\ updateProbeHolderToRobotBaseTransformActive = FALSE
    /\ connectionStatusLabel = [text |-> "Initial", toolTip |-> ""]
    /\ timers = [d \in Delays |-> 0]
    /\ stack = <<>>
    /\ widget = [state |-> "up", defaultCenterAngles |-> defaultCenterAngles]
    /\ nodes = s
    /\ connector = c
    /\ transform = [pose |-> <<>>, emitted |-> FALSE]
    /\ reconstruction = [live |-> FALSE, starts |-> 0, attached |-> FALSE,
                         interval |-> 0, spacing |-> 0, rendering |-> "none"]
    /\ parameterNode \in [centerAngles : {defaultCenterAngles},
                          angleRange : {30, 90},
                          speed : {5},
                          liveUpdates : BOOLEAN]
    /\ lastCmd = NoCmd
    /\ fault = "none"
    /\ report = "none"
    /\ script = NoScript

EmptyScene == [n \in NodeNames |-> 0]

\* a new scene
Init == InitWith(EmptyScene, [running |-> FALSE, starts |-> 0])

\* a scene in which an OpenIGTLink connector is already active and has
\* received the ultrasound image (the connector is found at line 329 and
\* the image at line 341 of the first pass)
StreamingScene ==
    [EmptyScene EXCEPT !["RobotUltrasoundConnector"] = 1,
                       !["Image_Reference"] = 1]

InitStreaming == InitWith(StreamingScene, [running |-> TRUE, starts |-> 0])

(***************************************************************************)
(* The pose publisher.                                                     *)
(***************************************************************************)
\* line 306, for the handle h
NotConnected(h) == h /= "open" \/ ~link

\* What the body of updateProbeHolderToRobotBaseTransform does up to its
\* processEvents call, for the reading r the arm returns:
\*   "NameError"       line 308 names the function without self.
\*   "AttributeError"  slicer.mc is None or missing at get_angles
\*   "TypeError"       the failed read is indexed
\*   "emit"            the pose is written to the transform node
UpdatePath(h, act, r) ==
    IF NotConnected(h) /\ act THEN "NameError"
    ELSE IF h /= "open" THEN "AttributeError"
    ELSE IF angles_to_coords(r) = <<>> THEN "TypeError"
    ELSE "emit"

\* the node is looked up or created (lines 309-311) on every path that
\* passes line 308
UpdateNodes(path) ==
    IF path = "NameError" THEN nodes
    ELSE GetOrCreate(nodes, "ProbeHolderToRobotBase", "ProbeHolderToRobotBase")

UpdateTransform(path, r) ==
    IF path = "emit"
    THEN [pose |-> SubSeq(angles_to_coords(r), 1, 3), emitted |-> TRUE]
    ELSE transform

AlwaysReschedule(act) == TRUE

\* line 324: the iteration reschedules itself only while active
RescheduleAtEnd(act) == act

UpdateReturn ==
    /\ stack /= <<>>
    /\ Top.h = "update"
    /\ Top.pc = "events"
    /\ timers' = IF RescheduleAtEnd(Active)
                 THEN [timers EXCEPT ![ImmediateDelay] = @ + 1]
                 ELSE timers
    \* an iteration called by onConnectButton returns into its try block,
    \* which ends: both frames leave the stack
    /\ stack' = IF Top.via = "call"
                THEN SubSeq(stack, 1, Len(stack) - 2)
                ELSE Pop
    /\ fault' = "none"
    /\ UNCHANGED <<mc, link, updateProbeHolderToRobotBaseTransformActive,
                   connectionStatusLabel, widget, nodes, connector, transform,
                   reconstruction, parameterNode, lastCmd, report>>
    /\ UNCHANGED script

TimerFires ==
    /\ CanDispatchTimer
    /\ CanNest
    /\ \E d \in Delays, r \in Readings :
        LET path == UpdatePath(mc, Active, r) IN
        /\ timers[d] > 0
        /\ timers' = [timers EXCEPT ![d] = @ - 1]
        /\ nodes' = UpdateNodes(path)
        /\ transform' = UpdateTransform(path, r)
        /\ stack' = IF path = "emit"
                    THEN Push(Frame("update", "events", 0, "timer"))
                    ELSE stack
        /\ fault' = IF path = "emit" THEN "none" ELSE path
    /\ UNCHANGED <<mc, link, updateProbeHolderToRobotBaseTransformActive,
                   connectionStatusLabel, widget, connector, reconstruction,
                   parameterNode, lastCmd, report>>
    /\ UNCHANGED script

(***************************************************************************)
(* Connection.                                                             *)
(***************************************************************************)
onConnectButton ==
    /\ CanDispatchClick
    /\ CanNest
    /\ Chains < MaxChains
    /\ connectionStatusLabel' = [text |-> "Connecting", toolTip |-> ""]
    /\ stack' = Push(Frame("connect", "events", 0, "click"))
    /\ fault' = "none"
    /\ UNCHANGED <<mc, link, updateProbeHolderToRobotBaseTransformActive,
                   timers, widget, nodes, connector, transform,
                   reconstruction, parameterNode, lastCmd, report>>
    /\ UNCHANGED script

ConnectFailedKeepsHandle ==
    /\ connectionStatusLabel' = [text |-> "Failed", toolTip |-> "cause"]
    /\ mc' = mc
    /\ stack' = Pop

\* the except branch (lines 232-237)
ConnectFailed ==
    /\ connectionStatusLabel' = [text |-> "Failed", toolTip |-> "cause"]
    /\ mc' = "none"
    /\ stack' = Pop

\* lines 219-230 after processEvents returns; opened says whether
\* MyCobot('COM5', 115200) succeeds when there is no handle yet, answered
\* whether get_system_version() returns rather than raises
ConnectTry ==
    /\ stack /= <<>>
    /\ Top.h = "connect"
    /\ Top.pc = "events"
    /\ \E opened \in BOOLEAN, answered \in BOOLEAN, r \in Readings :
        IF (mc /= "open" /\ ~opened) \/ ~answered
        THEN /\ ConnectFailed
             /\ UNCHANGED <<updateProbeHolderToRobotBaseTransformActive,
                            nodes, transform>>
        ELSE LET path == UpdatePath("open", TRUE, r) IN
             /\ updateProbeHolderToRobotBaseTransformActive' = TRUE
             /\ nodes' = UpdateNodes(path)
             /\ transform' = UpdateTransform(path, r)
             /\ IF path = "emit"
                THEN /\ connectionStatusLabel' =
                            [text |-> "Connected", toolTip |-> "version"]
                     /\ mc' = "open"
                     /\ stack' = Append(Retop(Frame("connect", "calling", 0, "click")),
                                        Frame("update", "events", 0, "call"))
                ELSE /\ ConnectFailed
    /\ fault' = "none"
    /\ UNCHANGED <<link, timers, widget, connector, reconstruction,
                   parameterNode, lastCmd, report>>
    /\ UNCHANGED script

DisconnectKeepsFlag(h, act, label) ==
    [mc |-> "none", active |-> act,
     label |-> [text |-> "Disconnected", toolTip |-> ""]]

\* lines 240-245 for the handle, the flag and the label before the press:
\* an open handle is closed, then all three are overwritten
DisconnectResult(h, act, label) ==
    [mc |-> "none", active |-> FALSE,
     label |-> [text |-> "Disconnected", toolTip |-> ""]]

onDisconnectButton ==
    /\ CanDispatchClick
    /\ LET after == DisconnectResult(mc, Active, connectionStatusLabel) IN
        /\ mc' = after.mc
        /\ updateProbeHolderToRobotBaseTransformActive' = after.active
        /\ connectionStatusLabel' = after.label
    /\ fault' = "none"
    /\ UNCHANGED <<link, timers, stack, widget, nodes, connector, transform,
                   reconstruction, parameterNode, lastCmd, report>>
    /\ UNCHANGED script

(***************************************************************************)
(* Module life cycle.                                                      *)
(***************************************************************************)
cleanup ==
    /\ Idle
    /\ widget.state = "up"
    /\ widget' = [widget EXCEPT !.state = "destroyed"]
    /\ updateProbeHolderToRobotBaseTransformActive' = FALSE
    /\ fault' = "none"
    /\ UNCHANGED <<mc, link, connectionStatusLabel, timers, stack, nodes,
                   connector, transform, reconstruction, parameterNode,
                   lastCmd, report>>
    /\ UNCHANGED script

\* the controller is plugged or unplugged
LinkChanges ==
    /\ link' = ~link
    /\ fault' = "none"
    /\ UNCHANGED <<mc, updateProbeHolderToRobotBaseTransformActive,
                   connectionStatusLabel, timers, stack, widget, nodes,
                   connector, transform, reconstruction, parameterNode,
                   lastCmd, report>>
    /\ UNCHANGED script

\* setup of a reloaded module (lines 145-151): an open handle reconnects
setup ==
    /\ Idle
    /\ widget.state = "destroyed"
    /\ mc = "open" => Chains < MaxChains
    /\ widget' = [state |-> "up", defaultCenterAngles |-> defaultCenterAngles]
    /\ updateProbeHolderToRobotBaseTransformActive' = FALSE
    /\ IF mc = "open"
       THEN /\ connectionStatusLabel' = [text |-> "Connecting", toolTip |-> ""]
            /\ stack' = Push(Frame("connect", "events", 0, "setup"))
       ELSE UNCHANGED <<connectionStatusLabel, stack>>
    \* lines 147-148: an empty center is replaced by the default
    /\ parameterNode' = IF parameterNode.centerAngles = <<>>
                        THEN [parameterNode EXCEPT
                                !.centerAngles = defaultCenterAngles]
                        ELSE parameterNode
    /\ fault' = "none"
    /\ UNCHANGED <<mc, link, timers, nodes, connector, transform,
                   reconstruction, lastCmd, report>>
    /\ UNCHANGED script

(***************************************************************************)
(* Arm commands of the buttons.  A handler without processEvents runs to   *)
(* its end in one step; an exception leaves it as an unhandled fault of    *)
(* the slot.                                                               *)
(***************************************************************************)
AlwaysAccepted(h) == "none"

\* what calling a method of slicer.mc does for the handle h
ArmFault(h) == IF h = "open" THEN "none" ELSE "AttributeError"

\* a handler whose only effect is the command cmd (cmd.op = "IndexError" or
\* "TypeError" when computing the command already raised)
ArmCall(cmd) ==
    /\ CanDispatchClick
    /\ fault' = IF cmd.op \in {"IndexError", "TypeError"} THEN cmd.op
                ELSE ArmFault(mc)
    /\ lastCmd' = IF fault' = "none" THEN cmd ELSE lastCmd
    /\ UNCHANGED <<mc, link, updateProbeHolderToRobotBaseTransformActive,
                   connectionStatusLabel, timers, stack, widget, nodes,
                   connector, transform, reconstruction, report>>
    /\ UNCHANGED script

FullRange(r) == Deg(r)

\* angleRangeSlider.value / 2, in tenths of a degree
HalfRange(r) == Deg(r) \div 2

\* lines 260-269
moveByAngle(center, angle, waitToArrive, speed) ==
    IF Len(center) < 6
    THEN [op |-> "IndexError", target |-> <<>>, speed |-> 0]
    ELSE [op |-> IF waitToArrive THEN "sync_send_angles" ELSE "send_angles",
          target |-> [center EXCEPT ![1] = @ + angle, ![6] = @ + angle],
          speed |-> speed]

onStartButtonCmd(waitToArrive, speed) ==
    moveByAngle(parameterNode.centerAngles, -HalfRange(parameterNode.angleRange),
                waitToArrive, speed)

onCenterButtonCmd(center, speed) == moveByAngle(center, 0, FALSE, speed)

onEndButtonCmd(speed) ==
    moveByAngle(parameterNode.centerAngles, HalfRange(parameterNode.angleRange),
                FALSE, speed)

NudgeAlongX(r, dz) ==
    LET coords == angles_to_coords(r) IN
    IF coords = <<>>
    THEN [op |-> "TypeError", target |-> <<>>, speed |-> 0]
    ELSE [op |-> "send_coords", target |-> [coords EXCEPT ![1] = @ + dz],
          speed |-> NudgeSpeed]

\* lines 293-303: the live pose, z moved by dz
NudgeCmd(r, dz) ==
    LET coords == angles_to_coords(r) IN
    IF coords = <<>>
    THEN [op |-> "TypeError", target |-> <<>>, speed |-> 0]
    ELSE [op |-> "send_coords", target |-> [coords EXCEPT ![3] = @ + dz],
          speed |-> NudgeSpeed]

onHomeButton ==
    /\ ArmCall([op |-> "send_angles", target |-> HomeAngles,
                        speed |-> HomeSpeed])
    /\ UNCHANGED parameterNode

\* lines 250-251
onStopButton ==
    /\ ArmCall([op |-> "stop", target |-> <<>>, speed |-> 0])
    /\ UNCHANGED parameterNode

onStartButton ==
    /\ ArmCall(onStartButtonCmd(FALSE, parameterNode.speed))
    /\ UNCHANGED parameterNode

onCenterButton ==
    /\ ArmCall(onCenterButtonCmd(parameterNode.centerAngles,
                                           parameterNode.speed))
    /\ UNCHANGED parameterNode

onEndButton ==
    /\ ArmCall(onEndButtonCmd(parameterNode.speed))
    /\ UNCHANGED parameterNode

onFlyButton ==
    \E r \in Readings :
        /\ ArmCall(IF mc = "open" THEN NudgeCmd(r, NudgeStep) ELSE NoCmd)
        /\ UNCHANGED parameterNode

onLandButton ==
    \E r \in Readings :
        /\ ArmCall(IF mc = "open" THEN NudgeCmd(r, -NudgeStep) ELSE NoCmd)
        /\ UNCHANGED parameterNode

\* line 254: the reading becomes the center pose.  A failed read is an
\* empty list, which is stored as it is, or (other versions of the vendor
\* library) -1 or None, which the list parameter refuses with a TypeError
onSetAsCenterButton ==
    /\ CanDispatchClick
    /\ \E r \in Readings, stored \in BOOLEAN :
        /\ r /= InvalidReading => stored
        /\ parameterNode' = IF mc = "open" /\ stored
                            THEN [parameterNode EXCEPT !.centerAngles = r]
                            ELSE parameterNode
        /\ fault' = IF mc = "open" /\ ~stored THEN "TypeError"
                    ELSE ArmFault(mc)
    /\ UNCHANGED <<mc, link, updateProbeHolderToRobotBaseTransformActive,
                   connectionStatusLabel, timers, stack, widget, nodes,
                   connector, transform, reconstruction, lastCmd, report>>
    /\ UNCHANGED script

KeepCenter == parameterNode.centerAngles

\* line 257: copy.copy(self._defaultCenterAngles)
CopyOfDefault == widget.defaultCenterAngles

\* lines 256-258: the default is stored, then onCenterButton runs
onResetCenterToDefaultButton ==
    /\ ArmCall(onCenterButtonCmd(CopyOfDefault, parameterNode.speed))
    /\ parameterNode' = [parameterNode EXCEPT !.centerAngles = CopyOfDefault]

(***************************************************************************)
(* onResetVolumeReconstructionButton.                                      *)
(***************************************************************************)
\* lines 329-336: the connector is found or created, and (re)started; the
\* handler has no guard against a press while another one is waiting
onResetVolumeReconstructionButton ==
    /\ CanDispatchClick
    /\ CanNest
    /\ connector.starts < MaxResets
    /\ nodes' = GetOrCreate(nodes, "RobotUltrasoundConnector",
                            "RobotUltrasoundConnector")
    /\ connector' = [running |-> TRUE, starts |-> connector.starts + 1]
    /\ stack' = Push(Frame("reset", "poll", 0, "click"))
    /\ fault' = "none"
    /\ UNCHANGED <<mc, link, updateProbeHolderToRobotBaseTransformActive,
                   connectionStatusLabel, timers, widget, transform,
                   reconstruction, parameterNode, lastCmd, report>>
    /\ UNCHANGED script

\* the robot-base transform is looked up before anything is attached
\* (lines 390-393)
RobotFound == Has("ProbeHolderToRobotBase")

AttachThenCheck == [reconstruction EXCEPT !.attached = TRUE]

\* lines 382-393: nothing of the session is touched before the handler
\* returns for want of the robot-base transform
ResetBeforeRobotCheck == reconstruction

FinerWhenLive(live) ==
    [reconstruction EXCEPT !.attached = TRUE,
                           !.interval = IF live THEN 1 ELSE 1000,
                           !.spacing = IF live THEN 5 ELSE 10]

\* lines 395-421 for the liveUpdates flag live; the spacing is in tenths
\* of a millimetre
Configured(live) ==
    [reconstruction EXCEPT !.attached = TRUE,
                           !.interval = IF live THEN 1 ELSE 1000,
                           !.spacing = IF live THEN 10 ELSE 5]

\* lines 382-416: each node of the session is looked up by its name and
\* created when missing
SessionNodes(s) ==
    LET s1 == GetOrCreate(s, "ImageToProbeHolder", "ImageToProbeHolder")
        s2 == GetOrCreate(s1, "VolumeReconstruction", "VolumeReconstruction")
        s3 == GetOrCreate(s2, "VolumeReconstructionROI",
                          "VolumeReconstructionROI")
    IN  GetOrCreate(s3, "Volume_Reference", "Volume_Reference")

\* line 341 of one pass of the wait loop and, once the image is there,
\* lines 351-421
ResetPoll ==
    /\ stack /= <<>>
    /\ Top.h = "reset"
    /\ Top.pc = "poll"
    /\ IF ~Has("Image_Reference")
       THEN /\ stack' = Retop([Top EXCEPT !.pc = "events"])
            /\ UNCHANGED <<nodes, reconstruction, report>>
       ELSE IF ~RobotFound
       THEN /\ nodes' = GetOrCreate(nodes, "ImageToProbeHolder",
                                   "ImageToProbeHolder")
            /\ report' = "RobotNotConnected"
            /\ stack' = Retop([Top EXCEPT !.pc = "norobot"])
            /\ reconstruction' = ResetBeforeRobotCheck
       ELSE /\ nodes' = SessionNodes(nodes)
            /\ reconstruction' = Configured(parameterNode.liveUpdates)
            /\ stack' = Retop([Top EXCEPT !.pc = "move"])
            /\ UNCHANGED report
    /\ fault' = "none"
    /\ UNCHANGED <<mc, link, updateProbeHolderToRobotBaseTransformActive,
                   connectionStatusLabel, timers, widget, connector, transform,
                   parameterNode, lastCmd>>
    /\ UNCHANGED script

\* lines 344-345 return; the loop goes on or, after PollLimit passes, ends
\* with the image still missing (lines 347-348)
OneMorePoll == PollLimit + 1

PollsAllowed == PollLimit

ResetSleep ==
    /\ stack /= <<>>
    /\ Top.h = "reset"
    /\ Top.pc = "events"
    /\ IF Top.polls + 1 < PollsAllowed
       THEN /\ stack' = Retop([Top EXCEPT !.pc = "poll", !.polls = @ + 1])
            /\ UNCHANGED report
       ELSE /\ stack' = Retop([Top EXCEPT !.pc = "nofound", !.polls = @ + 1])
            /\ report' = "ImageStreamUnavailable"
    /\ fault' = "none"
    /\ UNCHANGED <<mc, link, updateProbeHolderToRobotBaseTransformActive,
                   connectionStatusLabel, timers, widget, nodes, connector,
                   transform, reconstruction, parameterNode, lastCmd>>
    /\ UNCHANGED script

\* the message of errorDisplay is closed and the handler returns
\* (lines 349, 393)
ResetAbort ==
    /\ stack /= <<>>
    /\ Top.h = "reset"
    /\ Top.pc \in {"nofound", "norobot"}
    /\ stack' = Pop
    /\ fault' = "none"
    /\ UNCHANGED <<mc, link, updateProbeHolderToRobotBaseTransformActive,
                   connectionStatusLabel, timers, widget, nodes, connector,
                   transform, reconstruction, parameterNode, lastCmd, report>>
    /\ UNCHANGED script

NonBlockingMove == onStartButtonCmd(FALSE, ResetMoveSpeed)

\* line 423: the blocking move to the start of the sweep
ResetMoveCmd == onStartButtonCmd(TRUE, ResetMoveSpeed)

ResetMove ==
    /\ stack /= <<>>
    /\ Top.h = "reset"
    /\ Top.pc = "move"
    /\ fault' = IF ResetMoveCmd.op = "IndexError" THEN "IndexError"
                ELSE ArmFault(mc)
    /\ IF fault' = "none"
       THEN /\ lastCmd' = ResetMoveCmd
            /\ stack' = Retop([Top EXCEPT !.pc = "roi"])
       ELSE /\ stack' = Pop
            /\ UNCHANGED lastCmd
    /\ UNCHANGED <<mc, link, updateProbeHolderToRobotBaseTransformActive,
                   connectionStatusLabel, timers, widget, nodes, connector,
                   transform, reconstruction, parameterNode, report>>
    /\ UNCHANGED script

\* lines 424-436: the region of interest is placed around the answer of
\* angles_to_coords, the volume is reset and its rendering shown or hidden
ResetRoi ==
    /\ stack /= <<>>
    /\ Top.h = "reset"
    /\ Top.pc = "roi"
    /\ \E r \in {HomeAngles, InvalidReading} :
        IF angles_to_coords(r) = <<>>
        THEN /\ stack' = Pop
             /\ fault' = "TypeError"
             /\ UNCHANGED reconstruction
        ELSE /\ stack' = Retop([Top EXCEPT !.pc = "start"])
             /\ fault' = "none"
             /\ reconstruction' =
                    [reconstruction EXCEPT !.rendering =
                        IF parameterNode.liveUpdates THEN "visible" ELSE "hidden"]
    /\ UNCHANGED <<mc, link, updateProbeHolderToRobotBaseTransformActive,
                   connectionStatusLabel, timers, widget, nodes, connector,
                   transform, parameterNode, lastCmd, report>>
    /\ UNCHANGED script

\* line 438
ResetStart ==
    /\ stack /= <<>>
    /\ Top.h = "reset"
    /\ Top.pc = "start"
    /\ reconstruction' = [reconstruction EXCEPT !.live = TRUE,
                                                !.starts = @ + 1]
    /\ stack' = Pop
    /\ fault' = "none"
    /\ UNCHANGED <<mc, link, updateProbeHolderToRobotBaseTransformActive,
                   connectionStatusLabel, timers, widget, nodes, connector,
                   transform, parameterNode, lastCmd, report>>
    /\ UNCHANGED script

\* lines 440-441
onStartVolumeReconstructionButton ==
    /\ ArmCall(onEndButtonCmd(parameterNode.speed))
    /\ UNCHANGED parameterNode

\* line 446 reads the flag when the button is pressed
StopReadsFlag == parameterNode.liveUpdates

\* lines 443-452: the session is stopped; the rendering of the volume, if
\* there is one, is shown when liveUpdates is off
onStopVolumeReconstructionButton ==
    /\ CanDispatchClick
    /\ reconstruction' =
          [reconstruction EXCEPT !.live = FALSE,
                                 !.starts = 0,
                                 !.rendering =
                                    IF ~StopReadsFlag /\ @ /= "none"
                                    THEN "visible" ELSE @]
    /\ fault' = "none"
    /\ UNCHANGED <<mc, link, updateProbeHolderToRobotBaseTransformActive,
                   connectionStatusLabel, timers, stack, widget, nodes,
                   connector, transform, parameterNode, lastCmd, report,
                   script>>

(***************************************************************************)
(* Releasing the servos.  delayDisplay shows a message for the given time  *)
(* in a modal event loop before the handler goes on.                       *)
(***************************************************************************)
\* line 282
onRelaxButton ==
    /\ CanDispatchClick
    /\ CanNest
    /\ stack' = Push(Frame("relax", "delay", 0, "click"))
    /\ fault' = "none"
    /\ UNCHANGED <<mc, link, updateProbeHolderToRobotBaseTransformActive,
                   connectionStatusLabel, timers, widget, nodes, connector,
                   transform, reconstruction, parameterNode, lastCmd, report,
                   script>>

\* line 287
onSetCenterManuallyButton ==
    /\ CanDispatchClick
    /\ CanNest
    /\ stack' = Push(Frame("manual", "delay", 0, "click"))
    /\ fault' = "none"
    /\ UNCHANGED <<mc, link, updateProbeHolderToRobotBaseTransformActive,
                   connectionStatusLabel, timers, widget, nodes, connector,
                   transform, reconstruction, parameterNode, lastCmd, report,
                   script>>

\* a servo command of a handler whose message has closed: it is sent, or
\* raises and ends the handler
ServoCall(op, pcAfter) ==
    /\ fault' = ArmFault(mc)
    /\ IF fault' = "none"
       THEN /\ lastCmd' = [op |-> op, target |-> <<>>, speed |-> 0]
            /\ stack' = IF pcAfter = "return" THEN Pop
                        ELSE Retop([Top EXCEPT !.pc = pcAfter])
       ELSE /\ stack' = Pop
            /\ UNCHANGED lastCmd
    /\ UNCHANGED <<mc, link, updateProbeHolderToRobotBaseTransformActive,
                   connectionStatusLabel, timers, widget, nodes, connector,
                   transform, reconstruction, parameterNode, report, script>>

\* line 283
RelaxRelease ==
    /\ stack /= <<>>
    /\ Top.h = "relax"
    /\ Top.pc = "delay"
    /\ ServoCall("release_all_servos", "return")

\* lines 288-289
ManualRelease ==
    /\ stack /= <<>>
    /\ Top.h = "manual"
    /\ Top.pc = "delay"
    /\ ServoCall("release_all_servos", "holding")

\* lines 290-291
ManualFocus ==
    /\ stack /= <<>>
    /\ Top.h = "manual"
    /\ Top.pc = "holding"
    /\ ServoCall("focus_all_servos", "focused")

\* the last message closes and the handler returns
ManualDone ==
    /\ stack /= <<>>
    /\ Top.h = "manual"
    /\ Top.pc = "focused"
    /\ stack' = Pop
    /\ fault' = "none"
    /\ UNCHANGED <<mc, link, updateProbeHolderToRobotBaseTransformActive,
                   connectionStatusLabel, timers, widget, nodes, connector,
                   transform, reconstruction, parameterNode, lastCmd, report,
                   script>>

(***************************************************************************)
(* The publisher of the drivemycobot scripts (src/drivemycobot.py and      *)
(* src/tests/drivemycobot.py), run in the Python console of Slicer.  The   *)
(* script keeps its own handle and its own flag                            *)
(* slicer.updateProbeToRobotBaseTransformActive.                           *)
(***************************************************************************)
ScriptVariants == {"src", "tests"}

\* the name GetFirstNodeByName is asked for (line 34 of src/drivemycobot.py,
\* line 60 of src/tests/drivemycobot.py)
ScriptLookup(v) == IF v = "src" THEN "LinearTransform" ELSE "ProbeToRobotBase"

\* the name AddNewNodeByClass gives the new node (line 36, line 62)
ScriptCreates(v) == "ProbeToRobotBase"

\* the node one iteration writes its pose to: the first node of the name
\* looked up or, when there is none, the node it has just added
ScriptTarget(v) ==
    IF Has(ScriptLookup(v))
    THEN [name |-> ScriptLookup(v), ordinal |-> 1]
    ELSE [name |-> ScriptCreates(v), ordinal |-> nodes[ScriptCreates(v)] + 1]

\* the body of updateProbeToRobotBaseTransform up to its processEvents
\* call, for the variant v: the failed read raises when it is indexed
ScriptIteration(v, via, flag, pending) ==
    /\ nodes' = GetOrCreate(nodes, ScriptLookup(v), ScriptCreates(v))
    /\ \E r \in Readings :
        IF angles_to_coords(r) = <<>>
        THEN /\ fault' = "TypeError"
             /\ script' = [script EXCEPT !.variant = v, !.active = flag,
                                         !.pending = pending]
             /\ UNCHANGED stack
        ELSE /\ fault' = "none"
             /\ script' = [variant |-> v, active |-> flag,
                           pending |-> pending,
                           written |-> ScriptTarget(v),
                           pose |-> SubSeq(angles_to_coords(r), 1, 3)]
             /\ stack' = Push(Frame("scriptUpdate", "events", 0, via))
    /\ UNCHANGED <<mc, link, updateProbeHolderToRobotBaseTransformActive,
                   connectionStatusLabel, timers, widget, connector,
                   transform, reconstruction, parameterNode, lastCmd, report>>

\* the script is run: the flag is set and the function called (lines 54-55
\* of src/drivemycobot.py, lines 79-80 of the test copy)
ScriptRun ==
    /\ Idle
    /\ script.variant = "none"
    /\ \E v \in ScriptVariants : ScriptIteration(v, "script", TRUE, 0)

\* a timer of the script fires
ScriptTimerFires ==
    /\ CanDispatchTimer
    /\ CanNest
    /\ script.pending > 0
    /\ nodes[ScriptCreates(script.variant)] < MaxNodes
    /\ ScriptIteration(script.variant, "timer", script.active,
                       script.pending - 1)

\* processEvents returns and the iteration reschedules itself while the
\* flag is set (lines 49-51, lines 74-76)
ScriptUpdateReturn ==
    /\ stack /= <<>>
    /\ Top.h = "scriptUpdate"
    /\ Top.pc = "events"
    /\ script' = IF script.active
                 THEN [script EXCEPT !.pending = @ + 1]
                 ELSE script
    /\ stack' = Pop
    /\ fault' = "none"
    /\ UNCHANGED <<mc, link, updateProbeHolderToRobotBaseTransformActive,
                   connectionStatusLabel, timers, widget, nodes, connector,
                   transform, reconstruction, parameterNode, lastCmd, report>>

\* line 57 of src/drivemycobot.py, reached once the call of line 55 has
\* returned
ScriptStop ==
    /\ Idle
    /\ script.variant = "src"
    /\ script.written /= NoTarget
    /\ script.active
    /\ script' = [script EXCEPT !.active = FALSE]
    /\ fault' = "none"
    /\ UNCHANGED <<mc, link, updateProbeHolderToRobotBaseTransformActive,
                   connectionStatusLabel, timers, stack, widget, nodes,
                   connector, transform, reconstruction, parameterNode,
                   lastCmd, report>>

\* the user adds a transform in the Transforms module, which names it
\* LinearTransform
LinearTransformAdded ==
    /\ Idle \/ InProcessEvents
    /\ ~Has("LinearTransform")
    /\ nodes' = [nodes EXCEPT !["LinearTransform"] = 1]
    /\ fault' = "none"
    /\ UNCHANGED <<mc, link, updateProbeHolderToRobotBaseTransformActive,
                   connectionStatusLabel, timers, stack, widget, connector,
                   transform, reconstruction, parameterNode, lastCmd, report,
                   script>>

(***************************************************************************)
(* The environment.                                                        *)
(***************************************************************************)
\* the values a user or a script may try to store
SpeedInputs == {0, 1, 50, 51}
AngleRangeInputs == {-1, 0, 45, 90, 91}

AnySpeed == 0 .. 51

\* line 70: WithinRange(1, 50)
SpeedRange == 1 .. 50

\* line 71: WithinRange(0, 90)
AngleRangeRange == 0 .. 90

\* the validator of an annotated parameter refuses a value outside its
\* range with a ValueError and the stored value stays
speedChanged ==
    /\ CanDispatchClick
    /\ \E v \in SpeedInputs :
        /\ parameterNode' = IF v \in SpeedRange
                            THEN [parameterNode EXCEPT !.speed = v]
                            ELSE parameterNode
        /\ fault' = IF v \in SpeedRange THEN "none" ELSE "ValueError"
    /\ UNCHANGED <<mc, link, updateProbeHolderToRobotBaseTransformActive,
                   connectionStatusLabel, timers, stack, widget, nodes,
                   connector, transform, reconstruction, lastCmd, report,
                   script>>

angleRangeChanged ==
    /\ CanDispatchClick
    /\ \E v \in AngleRangeInputs :
        /\ parameterNode' = IF v \in AngleRangeRange
                            THEN [parameterNode EXCEPT !.angleRange = v]
                            ELSE parameterNode
        /\ fault' = IF v \in AngleRangeRange THEN "none" ELSE "ValueError"
    /\ UNCHANGED <<mc, link, updateProbeHolderToRobotBaseTransformActive,
                   connectionStatusLabel, timers, stack, widget, nodes,
                   connector, transform, reconstruction, lastCmd, report,
                   script>>

\* the user ticks or clears the live-updates box, which is bound to the
\* parameter liveUpdates
liveUpdatesChanged ==
    /\ CanDispatchClick
    /\ parameterNode' = [parameterNode EXCEPT !.liveUpdates = ~@]
    /\ fault' = "none"
    /\ UNCHANGED <<mc, link, updateProbeHolderToRobotBaseTransformActive,
                   connectionStatusLabel, timers, stack, widget, nodes,
                   connector, transform, reconstruction, lastCmd, report,
                   script>>

\* the running connector receives the first image while events are
\* processed, and the scene gets the node Image_Reference
ImageArrives ==
    /\ CanDispatchTimer
    /\ connector.running
    /\ ~Has("Image_Reference")
    /\ nodes' = [nodes EXCEPT !["Image_Reference"] = 1]
    /\ fault' = "none"
    /\ UNCHANGED <<mc, link, updateProbeHolderToRobotBaseTransformActive,
                   connectionStatusLabel, timers, stack, widget, connector,
                   transform, reconstruction, parameterNode, lastCmd, report>>
    /\ UNCHANGED script

(***************************************************************************)
(* Next-state relations.  The handlers of one group leave the state of     *)
(* the others alone, so each group is also explored with the connection    *)
(* and the publisher only.                                                 *)
(***************************************************************************)
\* connection, publisher and module life cycle
NextPublisher ==
    \/ onConnectButton
    \/ ConnectTry
    \/ onDisconnectButton
    \/ TimerFires
    \/ UpdateReturn
    \/ cleanup
    \/ setup
    \/ LinkChanges

\* the buttons that command or read the arm
NextArm ==
    \/ onHomeButton
    \/ onStopButton
    \/ onStartButton
    \/ onCenterButton
    \/ onEndButton
    \/ onFlyButton
    \/ onLandButton
    \/ onSetAsCenterButton
    \/ onResetCenterToDefaultButton

\* the reset of the volume reconstruction and the image stream
NextReset ==
    \/ onResetVolumeReconstructionButton
    \/ ResetPoll
    \/ ResetSleep
    \/ ResetAbort
    \/ ResetMove
    \/ ResetRoi
    \/ ResetStart
    \/ ImageArrives

\* the buttons that release and lock the servos
NextServo ==
    \/ onRelaxButton
    \/ RelaxRelease
    \/ onSetCenterManuallyButton
    \/ ManualRelease
    \/ ManualFocus
    \/ ManualDone

\* a reconstruction session on a scene that already streams the image
NextSession ==
    \/ onConnectButton
    \/ ConnectTry
    \/ onDisconnectButton
    \/ TimerFires
    \/ UpdateReturn
    \/ onResetVolumeReconstructionButton
    \/ ResetPoll
    \/ ResetAbort
    \/ ResetMove
    \/ ResetRoi
    \/ ResetStart
    \/ onStartVolumeReconstructionButton
    \/ onStopVolumeReconstructionButton
    \/ liveUpdatesChanged
    \/ NextServo

\* the sweep commands and the parameters they read
NextConfig ==
    \/ onConnectButton
    \/ ConnectTry
    \/ onDisconnectButton
    \/ TimerFires
    \/ UpdateReturn
    \/ onStartButton
    \/ onCenterButton
    \/ onEndButton
    \/ speedChanged
    \/ angleRangeChanged

\* the publisher of a drivemycobot script
NextScript ==
    \/ ScriptRun
    \/ ScriptTimerFires
    \/ ScriptUpdateReturn
    \/ ScriptStop
    \/ LinearTransformAdded

Next ==
    \/ NextPublisher
    \/ NextArm
    \/ NextReset
    \/ NextSession
    \/ NextConfig
    \/ NextScript

Spec == Init /\ [][Next]_vars

SpecPublisher == Init /\ [][NextPublisher]_vars

SpecArm == Init /\ [][NextPublisher \/ NextArm]_vars

SpecReset == Init /\ [][NextPublisher \/ NextReset]_vars

SpecConfig == Init /\ [][NextConfig]_vars

SpecScript == Init /\ [][NextScript]_vars

SpecSession == InitStreaming /\ [][NextSession]_vars

\* The event loop dispatches every due timer and processEvents returns
\* once its queue is drained; a handler that is running runs on.
FairPublisher ==
    /\ SpecPublisher
    /\ SF_vars(TimerFires)
    /\ SF_vars(UpdateReturn)
    /\ WF_vars(ConnectTry)


(***************************************************************************)
(* Properties.                                                             *)
(***************************************************************************)
Frames == {stack[i] : i \in 1..Len(stack)}

\* C1: at most one execution of updateProbeHolderToRobotBaseTransform is
\* in flight (started and not yet finished) at any time.
C1_IterationsNeverOverlap == Count("update") <= 1

\* a step in which an iteration started by a timer writes a pose
TimerEmits == TimerFires /\ Len(stack') > Len(stack)

\* C2: while the active flag is false no iteration started by a pending
\* timer writes a pose to the transform node.
C2_NoEmissionWhileInactive == [][TimerEmits => Active]_vars

\* C3: no step taken while the flag is false adds a pending timer, and if
\* the flag stays false from some point on, from some point on no timer is
\* pending.
C3_CancellationStopsRescheduling ==
    /\ [][~Active => PendingTimers' <= PendingTimers]_vars
    /\ (<>[](~Active)) => <>[](PendingTimers = 0)

\* the publisher ran, was cancelled by a disconnect and has drained
C3_Witness ==
    /\ ~Active
    /\ transform.emitted
    /\ connectionStatusLabel.text = "Disconnected"
    /\ Idle
    /\ PendingTimers = 0

\* C4: an iteration a timer starts while the publisher is active and the
\* arm is not connected writes no pose, schedules one attempt after
\* BackoffDelay and ends without an exception.
C4_BackoffWhenNotConnected ==
    [][(TimerFires /\ Active /\ NotConnected(mc))
        => /\ fault' = "none"
           /\ timers'[BackoffDelay] = timers[BackoffDelay] + 1
           /\ transform' = transform]_vars

\* a step of a reset handler that was started while another one had not
\* returned
NestedResetStep ==
    \/ onResetVolumeReconstructionButton /\ Count("reset") >= 1
    \/ /\ Count("reset") >= 2
       /\ Top.h = "reset"
       /\ ResetPoll \/ ResetSleep \/ ResetAbort \/ ResetMove \/ ResetRoi \/ ResetStart

\* C5: a reset pressed while an earlier one is still waiting for the image,
\* configuring or starting changes neither the connector, the session nor
\* the commands sent to the arm.
C5_ResetRejectedWhileBusy ==
    [][NestedResetStep => UNCHANGED <<connector, reconstruction, lastCmd>>]_vars

\* the blocking move of the reset for the center c and the angle range r
\* (degrees): axes 0 and 5 of c lowered by r/2, speed 15
StartPoseMove(c, r) ==
    [op |-> "sync_send_angles",
     target |-> <<c[1] - 5 * r, c[2], c[3], c[4], c[5], c[6] - 5 * r>>,
     speed |-> 15]

\* C6: whenever a reset is about to start the live reconstruction, the
\* last command sent to the arm is the blocking move to the start pose,
\* and it has returned.
C6_MoveBeforeReconstruction ==
    /\ \A f \in Frames :
          (f.h = "reset" /\ f.pc \in {"roi", "start"})
              => lastCmd = StartPoseMove(parameterNode.centerAngles,
                                         parameterNode.angleRange)
    /\ reconstruction.live => lastCmd.op = "sync_send_angles"

\* the session runs after the move of the default center by -15 degrees
C6_Witness ==
    /\ reconstruction.live
    /\ Idle
    /\ lastCmd = [op |-> "sync_send_angles",
                  target |-> <<-150, -280, -1350, 760, 50, 300>>,
                  speed |-> 15]

\* C7: no reset makes more than 30 passes of the wait loop; one that gives
\* up has made exactly 30 and has reported the missing image stream; and
\* while the image has never appeared nothing has been sent to the arm and
\* no session exists or runs.
C7_ImageWaitIsBounded ==
    \A f \in Frames :
        f.h = "reset" =>
            /\ f.polls <= 30
            /\ f.pc = "nofound" =>
                  /\ f.polls = 30
                  /\ report = "ImageStreamUnavailable"
                  /\ ~Has("Image_Reference") =>
                        /\ lastCmd = NoCmd
                        /\ ~reconstruction.live
                        /\ ~Has("VolumeReconstruction")

C7_Witness ==
    /\ stack /= <<>>
    /\ Top.h = "reset"
    /\ Top.pc = "nofound"
    /\ ~Has("Image_Reference")

\* C8: a reset that finds the image but no ProbeHolderToRobotBase node
\* reports RobotNotConnected and has sent nothing to the arm, attached
\* nothing and neither created nor started a session.
C8_NoRobotAborts ==
    \A f \in Frames :
        (f.h = "reset" /\ f.pc = "norobot") =>
            /\ report = "RobotNotConnected"
            /\ lastCmd = NoCmd
            /\ ~reconstruction.attached
            /\ ~reconstruction.live
            /\ ~Has("VolumeReconstruction")

C8_Witness ==
    /\ stack /= <<>>
    /\ Top.h = "reset"
    /\ Top.pc = "norobot"
    /\ Has("Image_Reference")
    /\ mc = "absent"

\* a step of a button or of the publisher that commands or reads the arm
ArmStep ==
    \/ onHomeButton
    \/ onStartButton
    \/ onCenterButton
    \/ onEndButton
    \/ onFlyButton
    \/ onLandButton
    \/ onSetAsCenterButton
    \/ onResetCenterToDefaultButton
    \/ TimerFires

\* C9: without an open handle every command or read of the arm ends in a
\* NotConnected rejection and changes nothing.
C9_RejectedWhenNotConnected ==
    [][(ArmStep /\ mc /= "open")
        => /\ fault' = "NotConnected"
           /\ UNCHANGED <<lastCmd, parameterNode, transform, nodes>>]_vars

\* C10: a disconnect leaves the handle cleared, the flag false and the
\* status Disconnected, and a second disconnect would change nothing.
C10_DisconnectIdempotent ==
    [][onDisconnectButton
        => /\ mc' = "none"
           /\ ~Active'
           /\ connectionStatusLabel' = [text |-> "Disconnected", toolTip |-> ""]
           /\ DisconnectResult(mc', Active', connectionStatusLabel')
                = [mc |-> mc', active |-> Active', label |-> connectionStatusLabel']
      ]_vars

\* disconnected after the publisher had run
C10_Witness ==
    /\ connectionStatusLabel.text = "Disconnected"
    /\ mc = "none"
    /\ transform.emitted

\* the two ways the try block of onConnectButton ends
ConnectSucceeded ==
    /\ mc' = "open"
    /\ connectionStatusLabel' = [text |-> "Connected", toolTip |-> "version"]
    /\ Active'
    /\ transform'.emitted
    /\ Len(stack') = Len(stack) + 1
    /\ stack'[Len(stack')] = Frame("update", "events", 0, "call")

ConnectRefused ==
    /\ mc' = "none"
    /\ connectionStatusLabel' = [text |-> "Failed", toolTip |-> "cause"]
    /\ stack' = Pop

\* C11: the try block of a connect ends either with the handle open, the
\* status Connected with the version and the first publisher iteration
\* run, or with the handle cleared and the status Failed with the cause;
\* no exception leaves it; and the status is Connecting only while a
\* connect has not yet reached its try block.
C11_ConnectEndsInOneOutcome ==
    /\ [][ConnectTry => /\ fault' = "none"
                        /\ ConnectSucceeded \/ ConnectRefused
                        /\ ~(ConnectSucceeded /\ ConnectRefused)]_vars
    /\ [](connectionStatusLabel.text = "Connecting"
            => \E f \in Frames : f.h = "connect" /\ f.pc = "events")

\* the first publisher iteration of the first connect raised, after the
\* flag was set
C11_Witness ==
    /\ connectionStatusLabel = [text |-> "Failed", toolTip |-> "cause"]
    /\ mc = "none"
    /\ Active
    /\ ~transform.emitted
    /\ Idle

\* C12: in every connection state a press of the stop button ends without
\* an exception and changes neither the handle, the status, the active
\* flag nor the center pose.
C12_StopIsAlwaysSafe ==
    [][onStopButton
        => /\ fault' = "none"
           /\ UNCHANGED <<mc, connectionStatusLabel,
                          updateProbeHolderToRobotBaseTransformActive,
                          parameterNode>>]_vars

\* a step in which onRelaxButton or onSetCenterManuallyButton reaches a
\* servo command
ServoStep == RelaxRelease \/ ManualRelease \/ ManualFocus

\* C13: while a reconstruction session is running neither handler sends
\* release_all_servos or focus_all_servos to the arm.
C13_NoServoReleaseDuringSession ==
    [][(ServoStep /\ reconstruction.live) => fault' /= "none"]_vars

\* the stored center with axes 0 and 5 moved by a tenths of a degree
Offset(c, a) == <<c[1] + a, c[2], c[3], c[4], c[5], c[6] + a>>

\* C14: for the stored center c and angle range r, the start command
\* targets c with axes 0 and 5 lowered by r/2, the end command c with both
\* raised by r/2 and the center command c itself; axes 1 to 4 are those of
\* c.  For the default center and r = 30 the targets are
\* [-15,-28,-135,76,5,30], [0,-28,-135,76,5,45] and [15,-28,-135,76,5,60].
C14_SweepTargets ==
    [][LET c == parameterNode.centerAngles
           r == parameterNode.angleRange
           t == lastCmd'.target
           example == c = <<0, -280, -1350, 760, 50, 450>> /\ r = 30
       IN  /\ (onStartButton /\ fault' = "none")
                => /\ t = Offset(c, -5 * r)
                   /\ example => t = <<-150, -280, -1350, 760, 50, 300>>
           /\ (onEndButton /\ fault' = "none")
                => /\ t = Offset(c, 5 * r)
                   /\ example => t = <<150, -280, -1350, 760, 50, 600>>
           /\ (onCenterButton /\ fault' = "none")
                => /\ t = c
                   /\ example => t = <<0, -280, -1350, 760, 50, 450>>
      ]_vars

\* the end command for the default center and the range 45 was sent
C14_Witness ==
    /\ lastCmd.op = "send_angles"
    /\ lastCmd.target = <<225, -280, -1350, 760, 50, 675>>
    /\ parameterNode.angleRange = 45

SweepCommand == onStartButton \/ onCenterButton \/ onEndButton

\* C16: a speed outside [1,50] or an angle range outside [0,90] is refused
\* and the parameters stay as they were; the stored values are always
\* inside their ranges; and every sweep command is sent with a speed in
\* [1,50] and moves axis 0 by at most half of 90 degrees.
C16_SweepParametersInBounds ==
    /\ [][((speedChanged \/ angleRangeChanged) /\ fault' /= "none")
            => parameterNode' = parameterNode]_vars
    /\ [](/\ parameterNode.speed \in 1 .. 50
          /\ parameterNode.angleRange \in 0 .. 90)
    /\ [][(SweepCommand /\ fault' = "none")
            => /\ lastCmd'.speed \in 1 .. 50
               /\ lastCmd'.target[1] - parameterNode.centerAngles[1]
                     \in -450 .. 450]_vars

\* a command was sent at the highest speed and a later value out of range
\* was refused
C16_Witness ==
    /\ fault = "ValueError"
    /\ parameterNode.speed = 50
    /\ lastCmd.speed = 50
    /\ parameterNode.angleRange = 90

\* C15: a reset of the center stores the factory tuple
\* [0,-28,-135,76,5,45] as the center, whatever the center was, and when
\* the arm takes the command moves it to exactly that tuple; the default
\* kept by the widget is that tuple in every state.
C15_DefaultCenterRestored ==
    /\ [][onResetCenterToDefaultButton
            => /\ parameterNode'.centerAngles = <<0, -280, -1350, 760, 50, 450>>
               /\ fault' = "none"
                    => lastCmd' = [op |-> "send_angles",
                                   target |-> <<0, -280, -1350, 760, 50, 450>>,
                                   speed |-> parameterNode.speed]]_vars
    /\ [](widget.defaultCenterAngles = <<0, -280, -1350, 760, 50, 450>>)

\* the arm was sent to the factory center, which is the stored center
C15_Witness ==
    /\ mc = "open"
    /\ fault = "none"
    /\ parameterNode.centerAngles = <<0, -280, -1350, 760, 50, 450>>
    /\ lastCmd.op = "send_angles"
    /\ lastCmd.target = <<0, -280, -1350, 760, 50, 450>>

\* C17: a stop of a running session leaves it stopped, and a rendering
\* that the start had hidden (liveUpdates was off when the session was
\* started) is visible afterwards, whatever liveUpdates is at the stop.
C17_StopShowsTheResult ==
    [][(onStopVolumeReconstructionButton /\ reconstruction.live)
        => /\ ~reconstruction'.live
           /\ reconstruction.rendering = "hidden"
                => reconstruction'.rendering = "visible"]_vars

\* C18: the scene holds at most one VolumeReconstruction node, and the
\* session has been started at most once since it was last stopped.
C18_AtMostOneSession ==
    /\ nodes["VolumeReconstruction"] <= 1
    /\ reconstruction.starts <= 1

\* C19: once a script has run its publisher, the scene holds exactly one
\* node named ProbeToRobotBase and every iteration has written its pose to
\* that node.
C19_OneNamedTransform ==
    script.variant /= "none"
        => /\ nodes["ProbeToRobotBase"] = 1
           /\ script.written
                 \in {NoTarget, [name |-> "ProbeToRobotBase", ordinal |-> 1]}

\* a reset has configured the session and is about to move the arm
JustConfigured == stack /= <<>> /\ Top.h = "reset" /\ Top.pc = "move"

\* C20 as claimed: a session configured with liveUpdates on has a smaller
\* output spacing and a shorter update interval than one configured with
\* liveUpdates off.
C20_FinerSpacingWhenLive ==
    (JustConfigured /\ parameterNode.liveUpdates)
        => /\ reconstruction.spacing < Configured(FALSE).spacing
           /\ reconstruction.interval < Configured(FALSE).interval

\* C20: a session configured with liveUpdates on has the output spacing
\* 1.0 and the update interval 1; one configured with liveUpdates off has
\* the smaller spacing 0.5 and the interval 1000.
C20_CoarserSpacingWhenLive ==
    JustConfigured
        => IF parameterNode.liveUpdates
           THEN reconstruction.spacing = 10 /\ reconstruction.interval = 1
           ELSE reconstruction.spacing = 5 /\ reconstruction.interval = 1000

\* a reset configured the session with liveUpdates off while an earlier
\* session ran
C20_Witness ==
    /\ JustConfigured
    /\ ~parameterNode.liveUpdates
    /\ reconstruction.spacing = 5
    /\ reconstruction.live

\* the Cartesian poses the arm can be read at
LivePoses == {angles_to_coords(r) : r \in Readings} \ {<<>>}

\* the pose p with its z-coordinate moved by dz
Raised(p, dz) == <<p[1], p[2], p[3] + dz, p[4], p[5], p[6]>>

\* C21: a fly (land) command the arm takes is send_coords of a pose the
\* arm was read at with z raised (lowered) by 5 and x, y and the
\* orientation as read, whatever the stored center is; the center and the
\* sweep parameters stay as they were.
C21_NudgeMovesOnlyZ ==
    [][/\ (onFlyButton /\ fault' = "none")
            => /\ lastCmd'.op = "send_coords"
               /\ \E p \in LivePoses : lastCmd'.target = Raised(p, 5)
               /\ parameterNode' = parameterNode
       /\ (onLandButton /\ fault' = "none")
            => /\ lastCmd'.op = "send_coords"
               /\ \E p \in LivePoses : lastCmd'.target = Raised(p, -5)
               /\ parameterNode' = parameterNode
      ]_vars

\* the arm was raised from the taught pose while the stored center was
\* the home pose
C21_Witness ==
    /\ lastCmd = [op |-> "send_coords",
                  target |-> <<150, 0, 85, 175, 0, -45>>,
                  speed |-> 10]
    /\ parameterNode.centerAngles = HomeAngles

\* C22: the stored center has six joint values in every state.
C22_CenterHasSixAngles == Len(parameterNode.centerAngles) = 6

\* C23: whenever the arm handle is missing or cleared the active flag of
\* the publisher is false.
C23_FlagFollowsHandle == mc /= "open" => ~Active

\* C24: at most one iteration of the publisher is scheduled at any time.
C24_OneTimerChain == PendingTimers <= 1

\* C25: a reset starts the live reconstruction only with the arm handle
\* open and with its blocking move to the start pose as the last command
\* the arm took.
C25_StartOnlyWhenConnected ==
    [][ResetStart => /\ mc = "open"
                     /\ lastCmd.op = "sync_send_angles"
                     /\ lastCmd.speed = 15]_vars

\* after a connect and a disconnect the transform node is still there: a
\* reset has configured the session, its move has raised and nothing was
\* started
C25_Witness ==
    /\ mc = "none"
    /\ connectionStatusLabel.text = "Disconnected"
    /\ Has("ProbeHolderToRobotBase")
    /\ reconstruction.attached
    /\ ~reconstruction.live
    /\ lastCmd = NoCmd
    /\ fault = "AttributeError"

=============================================================================
